---- MODULE Spec2Model ----
(***************************************************************************)
(* Model of ppp.py (Super Fiesta - Party Picture Processor): the main()    *)
(* flow (scan, renaming preview, conflict check, confirmation) followed by *)
(* batch_square (selection, scale-to-fit, centering, watermark, naming,    *)
(* save).                                                                  *)
(*                                                                         *)
(* File names are sequences of tokens: <<stem, ext>> for a directory       *)
(* entry, and e.g. <<"Photo", "_", "0", "0", "1", ".jpg">> for a generated *)
(* name.  Python floats are IEEE-754 doubles; they are modelled bit for    *)
(* bit: a 53-bit mantissa (held in limbs) and an exponent, every operation *)
(* rounded to nearest, ties to even.                                       *)
(***************************************************************************)
EXTENDS Integers, Sequences, FiniteSets, TLC

\* ---------------------------------------------------------------- bounds
MaxFiles == 3     \* longest directory listing of the mixed-name family
MaxLong == 10     \* longest listing of the uniform family (index 10 is reached)
MaxDim == 7       \* small source widths / heights of the geometry family
LargeDim == 3000  \* a large source width / height of the geometry family
MaxDay == 1       \* number of midnights a run may cross

\* ------------------------------------------------------ program constants
output_size == 1080
PercentBase == 100
LimbBits == 13
MinSide == 1
MaxSide == 100
MinPadding == 1
MaxPadding == 5
PreviewMax == 5
DefaultSide == 95
DefaultPadding == 3
MinWatermarkSize == 1
MaxWatermarkSize == 50
DefaultWatermarkSize == 14
MinMargin == 0
MaxMargin == 100
DefaultMargin == 17

\* ------------------------------------------------- IEEE-754 double model
\* A positive double is [frac |-> <<l1, l2, l3, l4>>, exp |-> e]: the four
\* 13-bit limbs of the 52 fraction bits, value (1 + frac / 2^52) * 2^e.
Front(s) == SubSeq(s, 1, Len(s) - 1)

RECURSIVE Pow2(_)
Pow2(n) == IF n = 0 THEN 1 ELSE 2 * Pow2(n - 1)

Limb == Pow2(LimbBits)

\* number of bits of n >= 1
RECURSIVE BitLen(_)
BitLen(n) == IF n <= 1 THEN 1 ELSE 1 + BitLen(n \div 2)

\* frac + 1 on the limbs, with the carry out of the top limb
RECURSIVE IncLimbs(_)
IncLimbs(ls) ==
    IF ls = <<>> THEN [limbs |-> <<>>, carry |-> 1]
    ELSE IF ls[Len(ls)] + 1 < Limb
         THEN [limbs |-> Front(ls) \o <<ls[Len(ls)] + 1>>, carry |-> 0]
         ELSE LET r == IncLimbs(Front(ls))
              IN [limbs |-> r.limbs \o <<0>>, carry |-> r.carry]

\* round the mantissa up (or not) and renormalise
RoundMant(frac, e, up) ==
    IF ~up THEN [frac |-> frac, exp |-> e]
    ELSE LET r == IncLimbs(frac)
         IN IF r.carry = 1
            THEN [frac |-> <<0, 0, 0, 0>>, exp |-> e + 1]
            ELSE [frac |-> r.limbs, exp |-> e]

\* largest e with b * 2^e <= a   (a >= b >= 1)
RECURSIVE ExpDown(_, _)
ExpDown(a, b) == IF 2 * b <= a THEN 1 + ExpDown(a, 2 * b) ELSE 0

\* smallest n with a * 2^n >= b   (1 <= a < b)
RECURSIVE ExpUp(_, _)
ExpUp(a, b) == IF a >= b THEN 0 ELSE 1 + ExpUp(2 * a, b)

\* 0.0, held with an exponent below every positive double's
FZero == [frac |-> <<0, 0, 0, 0>>, exp |-> 0 - 1075]

\* a / b for Python ints 0 <= a < 2^18, b > 0: the correctly rounded double
\* quotient (long division, 13 bits at a time; round to nearest, ties to even)
FDiv(a, b) ==
    IF a = 0 THEN FZero ELSE
    LET e == IF a >= b THEN ExpDown(a, b) ELSE 0 - ExpUp(a, b)
        n == IF e < 0 THEN a * Pow2(0 - e) ELSE a
        d == IF e > 0 THEN b * Pow2(e) ELSE b
        x1 == (n - d) * Limb
        x2 == (x1 % d) * Limb
        x3 == (x2 % d) * Limb
        x4 == (x3 % d) * Limb
        rem == x4 % d
        up == \/ 2 * rem > d
              \/ 2 * rem = d /\ (x4 \div d) % 2 = 1
    IN RoundMant(<<x1 \div d, x2 \div d, x3 \div d, x4 \div d>>, e, up)

\* k * x for a positive Python int k < 2^13 and a double x >= 0: the exact
\* product, rounded once to 53 bits (nearest, ties to even)
FMulInt(k, x) ==
    IF x = FZero THEN FZero ELSE
    LET p4 == x.frac[4] * k
        p3 == x.frac[3] * k + (p4 \div Limb)
        p2 == x.frac[2] * k + (p3 \div Limb)
        p1 == x.frac[1] * k + (p2 \div Limb)
        top == k + (p1 \div Limb)
        shift == BitLen(top) - 1
        sh == Pow2(shift)
        n1 == ((top % sh) * Limb + (p1 % Limb)) \div sh
        n2 == (((p1 % Limb) % sh) * Limb + (p2 % Limb)) \div sh
        n3 == (((p2 % Limb) % sh) * Limb + (p3 % Limb)) \div sh
        n4 == (((p3 % Limb) % sh) * Limb + (p4 % Limb)) \div sh
        rem == (p4 % Limb) % sh
        up == \/ 2 * rem > sh
              \/ 2 * rem = sh /\ n4 % 2 = 1
    IN RoundMant(<<n1, n2, n3, n4>>, x.exp + shift, up)

\* int(x) for a non-negative double below 2^27: truncation
Trunc(x) ==
    IF x.exp < 0 THEN 0
    ELSE IF x.exp <= LimbBits
         THEN (Limb + x.frac[1]) \div Pow2(LimbBits - x.exp)
         ELSE ((Limb + x.frac[1]) * Limb + x.frac[2])
                  \div Pow2(2 * LimbBits - x.exp)

\* -------------------------------------------------------------- geometry
Max(a, b) == IF a >= b THEN a ELSE b
Min(a, b) == IF a <= b THEN a ELSE b

\* target_size = int(output_size * (side_length / 100))
TargetSize(side) == Trunc(FMulInt(output_size, FDiv(side, PercentBase)))

\* scale = target_size / max(img.width, img.height)
ScaleToShorter(target, width, height) == FDiv(target, Min(width, height))
Scale(target, width, height) == FDiv(target, Max(width, height))

\* int(img.width * scale), int(img.height * scale)
ScaledDim(dim, scale) == Trunc(FMulInt(dim, scale))

\* position = ((output_size - new_width) // 2, (output_size - new_height) // 2)
PositionRoundedUp(new_width, new_height) ==
    <<(output_size - new_width + 1) \div 2,
      (output_size - new_height + 1) \div 2>>
Position(new_width, new_height) ==
    <<(output_size - new_width) \div 2, (output_size - new_height) \div 2>>

\* ---------------------------------------------------------------- naming
Folder == "in"
ImageExts == {".png", ".jpg", ".jpeg"}

\* str.lower() on the extension tokens that occur
Lower(tok) ==
    CASE tok = ".JPG" -> ".jpg"
      [] tok = ".PNG" -> ".png"
      [] OTHER -> tok

\* f.lower().endswith(('.png', '.jpg', '.jpeg'))
IsImage(name) == Len(name) > 0 /\ Lower(name[Len(name)]) \in ImageExts

\* os.path.join(folder_path, f)
JoinPath(name) == <<Folder, "/">> \o name

\* os.path.basename: what follows the last separator
RECURSIVE Basename(_)
Basename(path) ==
    IF \A k \in 1..Len(path) : path[k] # "/" THEN path
    ELSE Basename(Tail(path))

\* os.path.splitext(name)[0]: the name without its last extension
SplitextRoot(name) ==
    IF Len(name) > 1 /\ name[Len(name)] \in {".png", ".jpg", ".jpeg", ".JPG", ".PNG", ".txt"}
    THEN Front(name)
    ELSE name

Digits == <<"0", "1", "2", "3", "4", "5", "6", "7", "8", "9">>

\* str(index) for a non-negative int
RECURSIVE Str(_)
Str(n) == IF n < 10 THEN <<Digits[n + 1]>>
          ELSE Str(n \div 10) \o <<Digits[(n % 10) + 1]>>

\* str.zfill(width) on a digit string
ZFillUnpadded(s, width) == s
RECURSIVE ZFill(_, _)
ZFill(s, width) == IF Len(s) >= width THEN s ELSE ZFill(<<"0">> \o s, width)

\* datetime.now().strftime('%Y-%m-%d'); day 0 of the clock is 2024-12-31
DateStr(day) ==
    IF day = 0 THEN <<"2024", "-", "12", "-", "31">>
    ELSE <<"2025", "-", "01", "-">> \o ZFill(Str(day), 2)

\* generate_filename(original_path, index, naming_settings); day is the
\* value datetime.now() has when the call is made
GenerateFilename(original_path, index, ns, day) ==
    LET original_base == SplitextRoot(Basename(original_path))
        number == ZFill(Str(index), ns.naming_padding)
    IN CASE ns.naming_pattern = "original" -> original_base \o <<".jpg">>
         [] ns.naming_pattern = "sequential" ->
                <<ns.naming_prefix, "_">> \o number \o <<".jpg">>
         [] ns.naming_pattern = "event-based" ->
                IF ns.naming_include_date = "yes"
                THEN <<ns.naming_event, "_">> \o DateStr(day) \o <<"_">>
                         \o number \o <<".jpg">>
                ELSE <<ns.naming_event, "_">> \o number \o <<".jpg">>
         [] OTHER -> original_base \o <<".jpg">>

\* default name of batch_square when naming_settings is None
DefaultFilename(file_path) == SplitextRoot(Basename(file_path)) \o <<".jpg">>

\* check_filename_conflicts(output_folder, filenames): the loop, one
\* filename after the other; existing is what os.path.exists sees
RECURSIVE ConflictLoop(_, _, _)
ConflictLoop(existing, filenames, conflicts) ==
    IF filenames = <<>> THEN conflicts
    ELSE ConflictLoop(existing, Tail(filenames),
                      IF Head(filenames) \in existing
                      THEN Append(conflicts, Head(filenames))
                      ELSE conflicts)

CheckFilenameConflictsFirstOnly(existing, filenames) ==
    LET found == ConflictLoop(existing, filenames, <<>>)
    IN IF found = <<>> THEN <<>> ELSE <<Head(found)>>
CheckFilenameConflicts(existing, filenames) ==
    ConflictLoop(existing, filenames, <<>>)

\* ------------------------------------------------------------- watermark
\* load_and_prepare_watermark: the overlay resized to watermark_size percent
\* of target_width, or None (ok FALSE) when anything raises
LoadAndPrepareWatermark(wm, target_width) ==
    LET Prepared(watermark_width, watermark_height) ==
            IF wm.fault = "load"
            THEN [ok |-> FALSE, stage |-> "load", width |-> 0, height |-> 0]
            ELSE IF watermark_width = 0 \/ watermark_height = 0
                 THEN \* resize raises: height and width must be > 0
                      [ok |-> FALSE, stage |-> "resize",
                       width |-> watermark_width, height |-> watermark_height]
                 ELSE [ok |-> TRUE, stage |-> "prepared",
                       width |-> watermark_width, height |-> watermark_height]
        Sized(watermark_width) ==
            Prepared(watermark_width,
                     Trunc(FDiv(wm.overlay_height * watermark_width,
                                wm.overlay_width)))
    IN Sized(Trunc(FMulInt(target_width, FDiv(wm.watermark_size, PercentBase))))

\* an unknown position is centered instead of anchored bottom-right
CalculateWatermarkPositionCentered(image_size, watermark_size, position, margin) ==
    LET img_width == image_size[1]
        img_height == image_size[2]
        wm_width == watermark_size[1]
        wm_height == watermark_size[2]
        center == <<(img_width - wm_width) \div 2, (img_height - wm_height) \div 2>>
    IN CASE position = "top-left" -> <<margin, margin>>
         [] position = "top-right" -> <<img_width - wm_width - margin, margin>>
         [] position = "bottom-left" -> <<margin, img_height - wm_height - margin>>
         [] position = "bottom-right" ->
                <<img_width - wm_width - margin, img_height - wm_height - margin>>
         [] position = "bottom-center" ->
                <<(img_width - wm_width) \div 2, img_height - wm_height - margin>>
         [] OTHER -> center

\* calculate_watermark_position(image_size, watermark_size, position, margin)
CalculateWatermarkPosition(image_size, watermark_size, position, margin) ==
    LET img_width == image_size[1]
        img_height == image_size[2]
        wm_width == watermark_size[1]
        wm_height == watermark_size[2]
        bottom_right == <<img_width - wm_width - margin,
                          img_height - wm_height - margin>>
    IN CASE position = "top-left" -> <<margin, margin>>
         [] position = "top-right" -> <<img_width - wm_width - margin, margin>>
         [] position = "bottom-left" -> <<margin, img_height - wm_height - margin>>
         [] position = "bottom-right" -> bottom_right
         [] position = "bottom-center" ->
                <<(img_width - wm_width) \div 2, img_height - wm_height - margin>>
         [] position = "center" ->
                <<(img_width - wm_width) \div 2, (img_height - wm_height) \div 2>>
         [] OTHER -> bottom_right

\* an image is its size and what has been pasted on it, oldest first
PasteLayer(image, kind, size, position) ==
    [image EXCEPT !.layers =
        Append(@, [kind |-> kind, size |-> size, position |-> position])]

\* the body of apply_watermark up to the paste: the prepared overlay, its
\* position, and result_image, the copy of image with the overlay pasted
Watermarking(image, wm) ==
    LET Placed(watermark, wm_position) ==
            [watermark |-> watermark, wm_position |-> wm_position,
             result_image |-> PasteLayer(image, "watermark",
                                         <<watermark.width, watermark.height>>,
                                         wm_position)]
        Positioned(watermark, margin_pixels) ==
            Placed(watermark,
                   CalculateWatermarkPosition(
                       image.size, <<watermark.width, watermark.height>>,
                       wm.watermark_position, margin_pixels))
    IN Positioned(LoadAndPrepareWatermark(wm, image.size[1]),
                  Trunc(FMulInt(Min(image.size[1], image.size[2]),
                                FDiv(wm.watermark_margin, PercentBase))))

\* What became of the watermark: the stage reached ("applied", or the stage
\* that failed), the overlay's size and position, the image passed in as it
\* is after the call, and the image returned.
WatermarkResult(stage, w, position, image, result) ==
    [stage |-> stage, width |-> w.watermark.width,
     height |-> w.watermark.height, position |-> position,
     image |-> image, result |-> result]

\* pastes on the image passed in instead of on a copy
ApplyWatermarkInPlace(image, wm) ==
    LET Returned(w) ==
            IF ~w.watermark.ok
            THEN WatermarkResult(w.watermark.stage, w, <<>>, image, image)
            ELSE WatermarkResult(
                     IF wm.fault = "paste" THEN "paste" ELSE "applied",
                     w, w.wm_position, w.result_image, w.result_image)
    IN Returned(Watermarking(image, wm))

\* returns the copy even when the paste on it raised
ApplyWatermarkKeepsCopy(image, wm) ==
    LET Returned(w) ==
            IF ~w.watermark.ok
            THEN WatermarkResult(w.watermark.stage, w, <<>>, image, image)
            ELSE WatermarkResult(
                     IF wm.fault = "paste" THEN "paste" ELSE "applied",
                     w, w.wm_position, image, w.result_image)
    IN Returned(Watermarking(image, wm))

\* apply_watermark(image, ...): the overlay is pasted on a copy of image;
\* when the overlay could not be prepared, or the paste raises, the image
\* passed in is returned
ApplyWatermark(image, wm) ==
    LET Returned(w) ==
            IF ~w.watermark.ok
            THEN WatermarkResult(w.watermark.stage, w, <<>>, image, image)
            ELSE IF wm.fault = "paste"
                 THEN WatermarkResult("paste", w, w.wm_position, image, image)
                 ELSE WatermarkResult("applied", w, w.wm_position, image,
                                      w.result_image)
    IN Returned(Watermarking(image, wm))

\* watermark_settings is None, or use_watermark is not 'yes'
NotWatermarked == [stage |-> "off", width |-> 0, height |-> 0, position |-> <<>>]

\* ------------------------------------------------------------ state
VARIABLES
    listing,          \* os.listdir(input_folder): entries in listing order
    image,            \* per entry: width, height and what goes wrong with it
    tagged,           \* entries carrying the tag (what mdfind finds)
    src_exists,       \* os.path.exists(folder_path)
    settings,         \* side_length, use_tags and the naming settings
    use_naming,       \* FALSE: batch_square called with naming_settings=None
    pre_files,        \* names in the output folder before the run
    today,            \* the clock: day returned by datetime.now()
    pc,               \* position in main() / batch_square()
    outcome,          \* how the run ended
    out_exists,       \* the output folder exists
    out_files,        \* output folder: name -> index of the file that wrote it
                      \*   (0: content from before the run)
    main_files,       \* files_to_process of main()
    preview,          \* names shown by preview_renaming
    new_filenames,    \* names handed to check_filename_conflicts
    conflicts,        \* its result
    overwrite_ok,     \* the user answered "y" to "Overwrite existing files?"
    files_to_process, \* files_to_process of batch_square
    target_size,
    i,                \* files visited so far
    processed_count,
    error_count,
    log,              \* one record per loop iteration
    lookup            \* how the last call of get_files_with_tag ended

vars == <<listing, image, tagged, src_exists, settings, use_naming, pre_files,
          today, pc, outcome, out_exists, out_files, main_files, preview,
          new_filenames, conflicts, overwrite_ok, files_to_process,
          target_size, i, processed_count, error_count, log, lookup>>

env == <<listing, image, tagged, src_exists, settings, use_naming, pre_files>>

\* ------------------------------------------------------- file selection
\* keeps every directory entry, image or not
ListImagesUnfiltered == [k \in 1..Len(listing) |-> JoinPath(listing[k])]

\* [os.path.join(folder, f) for f in os.listdir(folder) if f.lower().endswith(...)]
ListImages ==
    LET kept == SelectSeq(listing, IsImage)
    IN [k \in 1..Len(kept) |-> JoinPath(kept[k])]

\* stdout lines of mdfind: the tagged entries of the folder
MdfindOutput ==
    LET hits == SelectSeq(listing, LAMBDA n : n \in tagged)
    IN [k \in 1..Len(hits) |-> JoinPath(hits[k])]

\* falls back to the directory listing when the lookup fails
GetFilesWithTagOrAll(ok) ==
    IF ok THEN SelectSeq(MdfindOutput, IsImage) ELSE ListImages

\* get_files_with_tag: ok is FALSE for a non-zero exit, a timeout or any
\* other exception of the lookup
GetFilesWithTag(ok) ==
    IF ok THEN SelectSeq(MdfindOutput, IsImage) ELSE <<>>

\* the candidate sequence of one enumeration
SelectFiles(ok) == IF settings.use_tags THEN GetFilesWithTag(ok) ELSE ListImages

\* get_files_with_tag is called only when use_tags is set
LookupResult(ok) ==
    IF settings.use_tags THEN (IF ok THEN "found" ELSE "failed") ELSE lookup

\* ------------------------------------------------------------------ Init
NamingSettings(pattern, padding, date) ==
    [naming_pattern |-> pattern, naming_prefix |-> "Photo",
     naming_event |-> "Event", naming_include_date |-> date,
     naming_padding |-> padding]

WatermarkSettings(use, position, size, margin, overlay, fault) ==
    [use_watermark |-> use, watermark_position |-> position,
     watermark_size |-> size, watermark_margin |-> margin,
     overlay_width |-> overlay[1], overlay_height |-> overlay[2],
     fault |-> fault]

\* use_watermark is 'no': main() passes watermark_settings = None
NoWatermark == WatermarkSettings("no", "bottom-center", 14, 17, <<2, 1>>, "none")

Settings(side, tags, ns) ==
    [side_length |-> side, use_tags |-> tags, naming |-> ns,
     watermark |-> NoWatermark]

MixedNames == {<<"a", ".png">>, <<"a", ".JPG">>, <<"b", ".png">>, <<"n", ".txt">>}

\* listings without repetition (a directory holds each name once)
Listings(names, maxlen) ==
    {l \in UNION {[1..n -> names] : n \in 0..maxlen} :
        \A j, k \in 1..Len(l) : j # k => l[j] # l[k]}

Range(seq) == {seq[k] : k \in 1..Len(seq)}

Faults == {"none", "decode", "encode"}

Image(width, height, fault) ==
    [width |-> width, height |-> height, fault |-> fault]

\* names a run could generate for its first two files on any day
Candidates(l, ns) ==
    LET imgs == SelectSeq(l, IsImage)
    IN {GenerateFilename(JoinPath(imgs[k]), k, ns, d) :
           k \in 1..Min(2, Len(imgs)), d \in {0, 1}}

\* the program state at the start of main()
InitProgram(start, has_output) ==
    /\ today = 0
    /\ pc = start
    /\ outcome = "running"
    /\ out_exists = has_output
    /\ out_files = [n \in pre_files |-> 0]
    /\ main_files = <<>>
    /\ preview = <<>>
    /\ new_filenames = <<>>
    /\ conflicts = <<>>
    /\ overwrite_ok = FALSE
    /\ files_to_process = <<>>
    /\ target_size = 0
    /\ i = 0
    /\ processed_count = 0
    /\ error_count = 0
    /\ log = <<>>
    /\ lookup = "none"

\* mixed names, faulty files, files already in the output folder; names
\* that do not depend on the date
InitMixed ==
    /\ listing \in Listings(MixedNames, MaxFiles)
    /\ image \in {im \in [Range(listing) -> {Image(4, 3, f) : f \in Faults}] :
                     \A n \in Range(listing) : ~IsImage(n) => im[n].fault = "none"}
    /\ tagged = {}
    /\ src_exists = TRUE
    /\ \E ns \in {NamingSettings("original", DefaultPadding, "yes"),
                  NamingSettings("sequential", DefaultPadding, "yes"),
                  NamingSettings("event-based", DefaultPadding, "no")} :
          /\ settings = Settings(DefaultSide, FALSE, ns)
          /\ pre_files \in {p \in SUBSET Candidates(listing, ns) :
                               Cardinality(p) <= 2}
    /\ use_naming = TRUE
    /\ InitProgram("scan", TRUE)

\* mixed names, sound files, files already in the output folder; names
\* that carry the date
InitDated ==
    /\ listing \in Listings(MixedNames, MaxFiles)
    /\ image = [n \in Range(listing) |-> Image(4, 3, "none")]
    /\ tagged = {}
    /\ src_exists = TRUE
    /\ LET ns == NamingSettings("event-based", DefaultPadding, "yes")
       IN /\ settings = Settings(DefaultSide, FALSE, ns)
          /\ pre_files \in {p \in SUBSET Candidates(listing, ns) :
                               Cardinality(p) <= 2}
    /\ use_naming = TRUE
    /\ InitProgram("scan", TRUE)

\* many sound files f1.png, f2.png, ...: every padding width
InitLong ==
    /\ \E n \in 1..MaxLong :
          listing = [k \in 1..n |-> <<"f">> \o Str(k) \o <<".png">>]
    /\ image = [n \in Range(listing) |-> Image(4, 3, "none")]
    /\ tagged = {}
    /\ src_exists = TRUE
    /\ \E pattern \in {"sequential", "event-based"},
          padding \in MinPadding..MaxPadding :
          settings = Settings(DefaultSide, FALSE,
                              NamingSettings(pattern, padding, "no"))
    /\ pre_files = {}
    /\ use_naming = TRUE
    /\ InitProgram("scan", TRUE)

Dims == (1..MaxDim) \cup {LargeDim}

\* one sound file of every size, every side_length
InitGeometry ==
    /\ listing = << <<"a", ".png">> >>
    /\ \E w \in Dims, h \in Dims :
          image = [n \in Range(listing) |-> Image(w, h, "none")]
    /\ tagged = {}
    /\ src_exists = TRUE
    /\ \E side \in MinSide..MaxSide :
          settings = Settings(side, FALSE,
                              NamingSettings("original", DefaultPadding, "yes"))
    /\ pre_files = {}
    /\ use_naming = TRUE
    /\ InitProgram("scan", TRUE)

\* validate_config_value(value, 'position'): valid_positions
ValidPositions == {"top-left", "top-right", "bottom-left", "bottom-right",
                   "bottom-center", "center"}

WatermarkPositions == ValidPositions \cup {"middle"}

\* overlay files by width and height: wide, tall, taller than the canvas
\* once resized, and too flat to keep one row of pixels
Overlays == {<<2, 1>>, <<1, 2>>, <<1, 3>>, <<LargeDim, 1>>}

\* what goes wrong with the overlay: Image.open raises, or paste raises
WatermarkFaults == {"none", "load", "paste"}

\* watermark settings as validate_config_value accepts them, and the unknown
\* position "middle", which batch_square meets only when called directly: every
\* position with the extreme and default sizes and margins, every margin,
\* and every size
WatermarkCases ==
    (WatermarkPositions
        \X {MinWatermarkSize, DefaultWatermarkSize, MaxWatermarkSize}
        \X {MinMargin, DefaultMargin, MaxMargin}
        \X Overlays \X WatermarkFaults)
    \cup ({"top-left", "bottom-right"} \X {DefaultWatermarkSize}
             \X (MinMargin..MaxMargin) \X {<<2, 1>>} \X {"none"})
    \cup ({"bottom-center"} \X (MinWatermarkSize..MaxWatermarkSize)
             \X {DefaultMargin} \X {<<2, 1>>, <<1, 2>>} \X {"none"})

\* two sound files, watermark enabled
InitWatermark ==
    /\ listing = << <<"a", ".png">>, <<"b", ".png">> >>
    /\ image = [n \in Range(listing) |-> Image(4, 3, "none")]
    /\ tagged = {}
    /\ src_exists = TRUE
    /\ pre_files = {}
    /\ use_naming = TRUE
    /\ \E c \in WatermarkCases :
          /\ settings =
              [Settings(DefaultSide, FALSE,
                        NamingSettings("original", DefaultPadding, "yes"))
                  EXCEPT !.watermark =
                     WatermarkSettings("yes", c[1], c[2], c[3], c[4], c[5])]
          /\ InitProgram(IF c[1] \in ValidPositions THEN "scan" ELSE "batch",
                         TRUE)

\* tag filtering enabled
InitTagged ==
    /\ listing \in Listings(MixedNames, MaxFiles)
    /\ image = [n \in Range(listing) |-> Image(4, 3, "none")]
    /\ tagged \in SUBSET Range(listing)
    /\ src_exists = TRUE
    /\ \E pattern \in {"original", "sequential"} :
          settings = Settings(DefaultSide, TRUE,
                              NamingSettings(pattern, DefaultPadding, "yes"))
    /\ pre_files = {}
    /\ use_naming = TRUE
    /\ InitProgram("scan", TRUE)

\* batch_square called on its own, without naming settings
InitDirect ==
    /\ listing \in Listings({<<"a", ".png">>, <<"n", ".txt">>}, 2)
    /\ image \in [Range(listing) -> {Image(4, 3, f) : f \in {"none", "decode"}}]
    /\ tagged = {}
    /\ src_exists \in BOOLEAN
    /\ settings = Settings(DefaultSide, FALSE,
                           NamingSettings("original", DefaultPadding, "yes"))
    /\ pre_files = {}
    /\ use_naming = FALSE
    /\ \E has_output \in BOOLEAN : InitProgram("batch", has_output)

Init ==
    \/ InitMixed
    \/ InitDated
    \/ InitLong
    \/ InitGeometry
    \/ InitWatermark
    \/ InitTagged
    \/ InitDirect

\* --------------------------------------------------------------- actions
\* datetime.now() is read only for an event-based name with the date; the
\* clock never runs backwards, so a read returns the day of the previous
\* read or a later one
ReadsClock(ns) ==
    ns.naming_pattern = "event-based" /\ ns.naming_include_date = "yes"

ClockReadings(ns) == IF ReadsClock(ns) THEN today..MaxDay ELSE {today}

\* main(): scan the source folder, return when nothing is to be processed
MainScan ==
    /\ pc = "scan"
    /\ \E ok \in BOOLEAN :
          LET files == SelectFiles(ok)
          IN /\ main_files' = files
             /\ lookup' = LookupResult(ok)
             /\ IF files = <<>>
                THEN pc' = "done" /\ outcome' = "no_images"
                ELSE /\ outcome' = outcome
                     /\ pc' = IF settings.naming.naming_pattern # "original"
                              THEN "preview" ELSE "confirm"
    /\ UNCHANGED <<env, today, out_exists, out_files, preview, new_filenames,
                   conflicts, overwrite_ok, files_to_process, target_size, i,
                   processed_count, error_count, log>>

\* preview_renaming: the names of the first files, as shown to the user
PreviewRenaming(files, ns, day) ==
    [k \in 1..Min(PreviewMax, Len(files)) |->
        GenerateFilename(files[k], k, ns, day)]

MainPreview ==
    /\ pc = "preview"
    /\ \E day \in ClockReadings(settings.naming) :
          /\ today' = day
          /\ preview' = PreviewRenaming(main_files, settings.naming, day)
    /\ pc' = "conflicts"
    /\ UNCHANGED <<env, outcome, out_exists, out_files, main_files,
                   new_filenames, conflicts, overwrite_ok, files_to_process,
                   target_size, i, processed_count, error_count, log,
                   lookup>>

\* main(): generate every name and check it against the output folder
MainConflictCheck ==
    /\ pc = "conflicts"
    /\ \E day \in ClockReadings(settings.naming) :
          LET names == [k \in 1..Len(main_files) |->
                          GenerateFilename(main_files[k], k, settings.naming, day)]
              found == CheckFilenameConflicts(DOMAIN out_files, names)
          IN /\ today' = day
             /\ new_filenames' = names
             /\ conflicts' = found
             /\ pc' = IF found # <<>> THEN "ask_overwrite" ELSE "confirm"
    /\ UNCHANGED <<env, outcome, out_exists, out_files, main_files,
                   preview, overwrite_ok, files_to_process, target_size, i,
                   processed_count, error_count, log,
                   lookup>>

\* "Overwrite existing files?" (default n)
MainAskOverwrite ==
    /\ pc = "ask_overwrite"
    /\ \E overwrite \in {"y", "n"} :
          IF overwrite = "n"
          THEN pc' = "done" /\ outcome' = "cancelled" /\ overwrite_ok' = FALSE
          ELSE pc' = "confirm" /\ outcome' = outcome /\ overwrite_ok' = TRUE
    /\ UNCHANGED <<env, today, out_exists, out_files, main_files, preview,
                   new_filenames, conflicts, files_to_process, target_size, i,
                   processed_count, error_count, log,
                   lookup>>

\* confirm_processing: "Start processing?" (default y)
MainConfirm ==
    /\ pc = "confirm"
    /\ \E confirm \in {"y", "n"} :
          IF confirm = "y"
          THEN pc' = "batch" /\ outcome' = outcome
          ELSE pc' = "done" /\ outcome' = "cancelled"
    /\ UNCHANGED <<env, today, out_exists, out_files, main_files, preview,
                   new_filenames, conflicts, overwrite_ok, files_to_process,
                   target_size, i, processed_count, error_count, log,
                   lookup>>

\* batch_square up to the loop: folder checks, selection, target size
BatchStart ==
    /\ pc = "batch"
    /\ IF ~src_exists
       THEN /\ pc' = "done" /\ outcome' = "missing_source"
            /\ UNCHANGED <<out_exists, files_to_process, target_size, lookup>>
       ELSE /\ out_exists' = TRUE
            /\ \E ok \in BOOLEAN :
                  LET files == SelectFiles(ok)
                  IN /\ files_to_process' = files
                     /\ lookup' = LookupResult(ok)
                     /\ IF files = <<>>
                        THEN /\ pc' = "done" /\ outcome' = "no_images"
                             /\ target_size' = target_size
                        ELSE /\ pc' = "loop" /\ outcome' = outcome
                             /\ target_size' = TargetSize(settings.side_length)
    /\ UNCHANGED <<env, today, out_files, main_files, preview, new_filenames,
                   conflicts, overwrite_ok, i, processed_count, error_count,
                   log>>

\* new_img.save(output_path, ...): the file now holds the output of index
Save(files, name, index) ==
    [n \in (DOMAIN files) \cup {name} |-> IF n = name THEN index ELSE files[n]]

\* Image.new('RGB', (output_size, output_size), background_color)
NewCanvas == <<output_size, output_size>>

\* new_img after new_img.paste(resized_img, position)
PastedCanvas(new_width, new_height, position) ==
    PasteLayer([size |-> NewCanvas, layers |-> <<>>], "image",
               <<new_width, new_height>>, position)

\* what one iteration did: the stage it reached ("saved", or the stage that
\* raised), the name it generated, the scaled size, the canvas, the paste
\* position and what became of the watermark
LogEntry(path, index, stage, name, nw, nh, canvas, pos, mark) ==
    [path |-> path, index |-> index, stage |-> stage, name |-> name,
     new_width |-> nw, new_height |-> nh, canvas |-> canvas, position |-> pos,
     watermark |-> mark]

\* except Exception: error_count += 1 ... continue
CountErrorDropped(count) == count
CountError(count) == count + 1

\* one iteration of the loop of batch_square
ProcessFile ==
    /\ pc = "loop"
    /\ i < Len(files_to_process)
    /\ LET index == i + 1
           file_path == files_to_process[index]
           img == image[Basename(file_path)]
           scale == Scale(target_size, img.width, img.height)
           new_width == ScaledDim(img.width, scale)
           new_height == ScaledDim(img.height, scale)
           position == Position(new_width, new_height)
           \* new_img = apply_watermark(new_img, ...): mark.result is the
           \* image that is saved
           mark == IF settings.watermark.use_watermark = "yes"
                   THEN ApplyWatermark(PastedCanvas(new_width, new_height,
                                                    position),
                                       settings.watermark)
                   ELSE NotWatermarked
       IN CASE img.fault = "decode" ->
                 \* Image.open / convert raises
                 /\ error_count' = CountError(error_count)
                 /\ log' = Append(log, LogEntry(file_path, index, "decode",
                                                <<>>, 0, 0, <<>>, <<>>,
                                                NotWatermarked))
                 /\ UNCHANGED <<out_files, processed_count, today>>
            [] img.fault # "decode" /\ (new_width = 0 \/ new_height = 0) ->
                 \* resize raises: height and width must be > 0
                 /\ error_count' = CountError(error_count)
                 /\ log' = Append(log, LogEntry(file_path, index, "resize",
                                                <<>>, new_width, new_height,
                                                <<>>, <<>>, NotWatermarked))
                 /\ UNCHANGED <<out_files, processed_count, today>>
            [] img.fault # "decode" /\ new_width > 0 /\ new_height > 0 ->
                 \E day \in (IF use_naming THEN ClockReadings(settings.naming)
                             ELSE {today}) :
                    LET new_filename ==
                            IF use_naming
                            THEN GenerateFilename(file_path, index,
                                                  settings.naming, day)
                            ELSE DefaultFilename(file_path)
                    IN /\ today' = day
                       /\ IF img.fault = "encode"
                          THEN \* save raises; the file may be left behind,
                               \* partly written
                               /\ error_count' = CountError(error_count)
                               /\ log' = Append(log,
                                     LogEntry(file_path, index, "save",
                                              new_filename, new_width,
                                              new_height, NewCanvas, position,
                                              mark))
                               /\ \E left \in BOOLEAN :
                                     out_files' =
                                         IF left
                                         THEN Save(out_files, new_filename, index)
                                         ELSE out_files
                               /\ UNCHANGED processed_count
                          ELSE /\ out_files' = Save(out_files, new_filename, index)
                               /\ processed_count' = processed_count + 1
                               /\ log' = Append(log,
                                     LogEntry(file_path, index, "saved",
                                              new_filename, new_width,
                                              new_height, NewCanvas, position,
                                              mark))
                               /\ UNCHANGED error_count
    /\ i' = i + 1
    /\ UNCHANGED <<env, pc, outcome, out_exists, main_files, preview,
                   new_filenames, conflicts, overwrite_ok, files_to_process,
                   target_size,
                   lookup>>

\* the loop is exhausted: the summary is printed and main() returns
BatchFinish ==
    /\ pc = "loop"
    /\ i = Len(files_to_process)
    /\ pc' = "done"
    /\ outcome' = "complete"
    /\ UNCHANGED <<env, today, out_exists, out_files, main_files, preview,
                   new_filenames, conflicts, overwrite_ok, files_to_process,
                   target_size, i, processed_count, error_count, log,
                   lookup>>

Next ==
    \/ MainScan
    \/ MainPreview
    \/ MainConflictCheck
    \/ MainAskOverwrite
    \/ MainConfirm
    \/ BatchStart
    \/ ProcessFile
    \/ BatchFinish

Spec == Init /\ [][Next]_vars

\* ---------------------------------------------------------- properties
Named(entry) == entry.name # <<>>
Pasted(entry) == entry.position # <<>>
Saved(entry) == entry.stage = "saved"
InLoop == pc = "loop" \/ outcome = "complete"

\* the file raises somewhere between Image.open and save
Raises(path) ==
    LET img == image[Basename(path)]
        scale == Scale(target_size, img.width, img.height)
    IN \/ img.fault # "none"
       \/ ScaledDim(img.width, scale) = 0
       \/ ScaledDim(img.height, scale) = 0

FailingAmong(k) == {j \in 1..k : Raises(files_to_process[j])}

\* C1: the loop of batch_square visits every selected file exactly once, in
\* selection order and without retry; a raising file does not end the loop;
\* errors counts the raising files visited so far and processed the others,
\* so that at completion processed + errors = N.
C1_BatchCounts ==
    /\ InLoop =>
          /\ Len(log) = i
          /\ \A k \in 1..i : /\ log[k].path = files_to_process[k]
                             /\ log[k].index = k
                             /\ Saved(log[k]) <=> ~Raises(files_to_process[k])
          /\ error_count = Cardinality(FailingAmong(i))
          /\ processed_count = i - Cardinality(FailingAmong(i))
    /\ outcome = "complete" =>
          /\ i = Len(files_to_process)
          /\ processed_count + error_count = Len(files_to_process)

\* a completed batch in which a raising file was followed by a sound one
C1_Witness ==
    /\ outcome = "complete"
    /\ \E j, k \in 1..Len(log) : j < k /\ ~Saved(log[j]) /\ Saved(log[k])
    /\ error_count >= 1
    /\ processed_count >= 1

\* C2: starting from an empty output folder, the number of files in the
\* output folder after a batch equals processed, under every naming pattern
\* (here for batches whose only failures are undecodable images).
C2_OneFilePerImage ==
    (/\ outcome = "complete"
     /\ pre_files = {}
     /\ \A k \in 1..Len(log) : log[k].stage \in {"saved", "decode"})
    => Cardinality(DOMAIN out_files) = processed_count

\* C3: a file that was in the output folder before the run is overwritten
\* only after the conflict check has listed it and the user has confirmed
\* the overwrite.
C3_NoSilentOverwrite ==
    \A n \in pre_files :
        out_files[n] # 0 => (overwrite_ok /\ n \in Range(conflicts))

\* C4: check_filename_conflicts returns exactly the generated names that
\* exist in the output folder, all of them, in input order, and the empty
\* list iff none exists.
C4_AllConflictsListed ==
    new_filenames # <<>> =>
        /\ conflicts = SelectSeq(new_filenames, LAMBDA n : n \in pre_files)
        /\ \A k \in 1..Len(new_filenames) :
              new_filenames[k] \in pre_files => new_filenames[k] \in Range(conflicts)
        /\ conflicts = <<>> <=>
              \A k \in 1..Len(new_filenames) : new_filenames[k] \notin pre_files

\* two collisions are listed, a name that does not collide is not
C4_Witness ==
    /\ Len(conflicts) >= 2
    /\ conflicts[1] # conflicts[2]
    /\ Len(conflicts) < Len(new_filenames)

Sequential == use_naming /\ settings.naming.naming_pattern = "sequential"

DigitValue(tok) == CHOOSE d \in 0..9 : Digits[d + 1] = tok

\* the number a digit string denotes
RECURSIVE DigitsValue(_)
DigitsValue(ds) ==
    IF ds = <<>> THEN 0
    ELSE 10 * DigitsValue(Front(ds)) + DigitValue(ds[Len(ds)])

\* C5: with the sequential pattern, prefix P and padding w, the file at
\* 1-based position k is named P_<k zero-padded to at least w digits>.jpg
\* (Photo_001.jpg, Photo_002.jpg, Photo_003.jpg for "Photo" and padding 3),
\* and the names of one run are pairwise distinct.
C5_SequentialNames ==
    (Sequential /\ InLoop) =>
        LET w == settings.naming.naming_padding
        IN /\ \A k \in 1..Len(log) :
                 Named(log[k]) =>
                    LET name == log[k].name
                        ds == SubSeq(name, 3, Len(name) - 1)
                    IN /\ Len(name) >= 4
                       /\ name[1] = settings.naming.naming_prefix
                       /\ name[2] = "_"
                       /\ name[Len(name)] = ".jpg"
                       /\ \A d \in 1..Len(ds) : ds[d] \in Range(Digits)
                       /\ DigitsValue(ds) = k
                       /\ Len(ds) >= w
                       /\ Len(ds) > w => ds[1] # "0"
                       /\ Saved(log[k]) =>
                             /\ name \in DOMAIN out_files
                             /\ out_files[name] = k
           /\ \A j, k \in 1..Len(log) :
                 (j # k /\ Named(log[j]) /\ Named(log[k]))
                    => log[j].name # log[k].name
           /\ (w = 3 /\ settings.naming.naming_prefix = "Photo") =>
                 \A k \in 1..Min(3, Len(log)) :
                    Named(log[k]) =>
                       log[k].name = <<"Photo", "_", "0", "0", Digits[k + 1], ".jpg">>

\* ten files were named with padding 1: the tenth index outgrows the padding
C5_Witness ==
    /\ Sequential
    /\ outcome = "complete"
    /\ settings.naming.naming_padding = 1
    /\ Len(log) >= 10
    /\ Saved(log[10])

\* C6: the index given to the namer is the file's 1-based position in the
\* candidate sequence, a failing file keeps its index, and the name used
\* when the file is written is the name computed for it in the preview and
\* in the conflict check.
C6_StableIndexAndName ==
    InLoop =>
        \A k \in 1..Len(log) :
            /\ log[k].index = k
            /\ log[k].path = files_to_process[k]
            /\ (Named(log[k]) /\ k <= Len(new_filenames))
                  => log[k].name = new_filenames[k]
            /\ (Named(log[k]) /\ k <= Len(preview))
                  => log[k].name = preview[k]

\* C7: generate_filename is deterministic: the calls made for the same
\* path, index and settings (by the preview, by the conflict check and by
\* the loop) return the same name, whenever in the run they are made.
C7_Deterministic ==
    \A k \in 1..Len(new_filenames) :
        /\ k <= Len(preview) => preview[k] = new_filenames[k]
        /\ (k <= Len(log) /\ Named(log[k]) /\ log[k].path = main_files[k])
              => /\ log[k].name = new_filenames[k]
                 /\ k <= Len(preview) => log[k].name = preview[k]

Resized(entry) == entry.stage \in {"resize", "save", "saved"}

\* C8: the scaled image's longer side equals floor(1080 * sidePercent / 100)
\* and its shorter side equals floor(shorter * targetSize / longer).
C8_ScaledSize ==
    InLoop =>
        /\ target_size = (1080 * settings.side_length) \div 100
        /\ \A k \in 1..Len(log) :
              Resized(log[k]) =>
                 LET img == image[Basename(log[k].path)]
                     wide == img.width >= img.height
                     longer == Max(img.width, img.height)
                     shorter == Min(img.width, img.height)
                     scaled_longer == IF wide THEN log[k].new_width
                                      ELSE log[k].new_height
                     scaled_shorter == IF wide THEN log[k].new_height
                                       ELSE log[k].new_width
                 IN /\ scaled_longer = target_size
                    /\ scaled_shorter = (shorter * target_size) \div longer

\* C9: the canvas is exactly 1080 x 1080 and the scaled image is pasted
\* entirely inside it.
C9_PasteInsideCanvas ==
    \A k \in 1..Len(log) :
        Pasted(log[k]) =>
            /\ log[k].canvas = <<1080, 1080>>
            /\ log[k].position[1] >= 0
            /\ log[k].position[2] >= 0
            /\ log[k].position[1] + log[k].new_width <= 1080
            /\ log[k].position[2] + log[k].new_height <= 1080

\* an image that fills the canvas from edge to edge on one axis only
C9_Witness ==
    \E k \in 1..Len(log) :
        /\ Saved(log[k])
        /\ log[k].new_width = 1080
        /\ log[k].position[1] = 0
        /\ log[k].new_height < 1080
        /\ log[k].position[2] > 0

\* C10: x = (1080 - scaledWidth) // 2 and y = (1080 - scaledHeight) // 2;
\* on each axis the two margins are equal when the difference is even, and
\* the right / bottom margin is one pixel larger when it is odd.
C10_Centered ==
    \A k \in 1..Len(log) :
        Pasted(log[k]) =>
            LET x == log[k].position[1]
                y == log[k].position[2]
                right == 1080 - log[k].new_width - x
                bottom == 1080 - log[k].new_height - y
            IN /\ 2 * x <= 1080 - log[k].new_width
               /\ 2 * y <= 1080 - log[k].new_height
               /\ right = IF (1080 - log[k].new_width) % 2 = 0 THEN x ELSE x + 1
               /\ bottom = IF (1080 - log[k].new_height) % 2 = 0 THEN y ELSE y + 1

\* an odd difference on one axis and an even one on the other
C10_Witness ==
    \E k \in 1..Len(log) :
        /\ Saved(log[k])
        /\ (1080 - log[k].new_width) % 2 = 1
        /\ (1080 - log[k].new_height) % 2 = 0
        /\ log[k].new_height < 1080

\* ------------------------------------------------- watermark properties
WatermarkingOn == settings.watermark.use_watermark = "yes"
Marked(entry) == entry.watermark.stage = "applied"
MarkFailed(entry) == entry.watermark.stage \in {"load", "resize", "paste"}

\* C11: whenever the overlay is pasted, at (x, y) with its resized width
\* and height, 0 <= x, 0 <= y, x + width <= 1080 and y + height <= 1080.
C11_WatermarkInsideCanvas ==
    \A k \in 1..Len(log) :
        Marked(log[k]) =>
            LET mark == log[k].watermark
            IN /\ mark.position[1] >= 0
               /\ mark.position[2] >= 0
               /\ mark.position[1] + mark.width <= log[k].canvas[1]
               /\ mark.position[2] + mark.height <= log[k].canvas[2]

\* the image apply_watermark was handed: the canvas with the scaled image
Unmarked(entry) ==
    PastedCanvas(entry.new_width, entry.new_height, entry.position)

SavedAmong(k) == {j \in 1..k : Saved(log[j])}

\* C12: a sound image whose watermark failed (overlay not loaded, not
\* resized, or not pasted) is saved, without a watermark layer, and counted
\* in processed_count; error_count does not move and the loop goes on to
\* the end of the selection.
C12_WatermarkFailureNotFatal ==
    (WatermarkingOn /\ InLoop) =>
        /\ \A k \in 1..Len(log) :
              (MarkFailed(log[k]) /\ image[Basename(log[k].path)].fault = "none")
              => /\ Saved(log[k])
                 /\ log[k].name \in DOMAIN out_files
                 /\ out_files[log[k].name] >= k
                 /\ log[k].watermark.result = Unmarked(log[k])
                 /\ processed_count = Cardinality(SavedAmong(Len(log)))
                 /\ error_count = Len(log) - Cardinality(SavedAmong(Len(log)))
        /\ outcome = "complete" => Len(log) = Len(files_to_process)

\* a completed batch of two images: the paste of the overlay raised on
\* both, both are saved and counted as processed
C12_Witness ==
    /\ WatermarkingOn
    /\ outcome = "complete"
    /\ Len(log) = 2
    /\ \A k \in 1..2 : log[k].watermark.stage = "paste" /\ Saved(log[k])
    /\ processed_count = 2
    /\ error_count = 0

\* C13: with tag filtering enabled, a failed tag lookup (in main() or in
\* batch_square) yields the empty selection: the run ends with "no images
\* found", nothing is processed and nothing is written, whatever the
\* directory holds.
C13_NoFallbackOnLookupFailure ==
    (settings.use_tags /\ lookup = "failed") =>
        /\ pc = "done"
        /\ outcome = "no_images"
        /\ files_to_process = <<>>
        /\ log = <<>>
        /\ i = 0
        /\ processed_count = 0
        /\ error_count = 0
        /\ out_files = [n \in pre_files |-> 0]

\* the lookup of main() found two tagged images, the one of batch_square
\* failed
C13_Witness ==
    /\ settings.use_tags
    /\ lookup = "failed"
    /\ Len(main_files) = 2
    /\ Len(ListImages) >= 2
    /\ outcome = "no_images"

\* no file of the source folder is eligible: none is an image, or, with tag
\* filtering, none is a tagged image or the lookup failed
NothingSelected ==
    IF settings.use_tags
    THEN lookup = "failed" \/ ~\E n \in tagged : IsImage(n)
    ELSE ~\E n \in Range(listing) : IsImage(n)

\* C14: when the source folder is missing or no file is eligible, the run
\* ends before the loop, with "folder doesn't exist" or "no images": no
\* image is opened, no counter moves and the files of the output folder are
\* those from before the run.
C14_TerminalBeforeProcessing ==
    /\ (pc \in {"loop", "done"} /\ outcome # "cancelled"
        /\ (~src_exists \/ NothingSelected))
       => /\ pc = "done"
          /\ outcome = IF src_exists THEN "no_images" ELSE "missing_source"
    /\ outcome \in {"missing_source", "no_images"}
       => /\ log = <<>>
          /\ i = 0
          /\ processed_count = 0
          /\ error_count = 0
          /\ out_files = [n \in pre_files |-> 0]

\* batch_square called on a folder that holds a text file only: the output
\* folder exists, nothing else happened
C14_Witness ==
    /\ ~use_naming
    /\ src_exists
    /\ listing = << <<"n", ".txt">> >>
    /\ pc = "done"
    /\ outcome = "no_images"
    /\ out_exists
    /\ out_files = [n \in pre_files |-> 0]

\* C15: with W x H the canvas, w x h the resized overlay and
\* m = floor(min(W, H) * marginPercent / 100), the overlay is pasted at
\* (m, m) for top-left, (W-w-m, m) for top-right, (m, H-h-m) for
\* bottom-left, (W-w-m, H-h-m) for bottom-right, ((W-w)//2, H-h-m) for
\* bottom-center, ((W-w)//2, (H-h)//2) for center, and at the bottom-right
\* place for any other position.
C15_AnchorPositions ==
    \A k \in 1..Len(log) :
        log[k].watermark.stage \in {"paste", "applied"} =>
            LET W == log[k].canvas[1]
                H == log[k].canvas[2]
                w == log[k].watermark.width
                h == log[k].watermark.height
                m == (Min(W, H) * settings.watermark.watermark_margin) \div 100
                position == settings.watermark.watermark_position
                x == log[k].watermark.position[1]
                y == log[k].watermark.position[2]
            IN /\ position = "top-left" => x = m /\ y = m
               /\ position = "top-right" => x = W - w - m /\ y = m
               /\ position = "bottom-left" => x = m /\ y = H - h - m
               /\ position = "bottom-right" => x = W - w - m /\ y = H - h - m
               /\ position = "bottom-center" =>
                      x = (W - w) \div 2 /\ y = H - h - m
               /\ position = "center" =>
                      x = (W - w) \div 2 /\ y = (H - h) \div 2
               /\ position \notin ValidPositions => x = W - w - m /\ y = H - h - m

\* an unknown position with the default margin, whose pixel count 183.6 is
\* rounded down: the overlay is pasted at the bottom-right place
C15_Witness ==
    \E k \in 1..Len(log) :
        /\ Marked(log[k])
        /\ settings.watermark.watermark_position = "middle"
        /\ settings.watermark.watermark_margin = DefaultMargin
        /\ log[k].watermark.position =
              <<1080 - log[k].watermark.width - 183,
                1080 - log[k].watermark.height - 183>>

\* C16: whenever apply_watermark was called, the image it was handed is
\* afterwards what it was before, the canvas with the scaled image alone;
\* when the watermark failed the image returned is that same image, and when
\* it succeeded the image returned is that image with the overlay on top.
C16_WatermarkOnCopy ==
    \A k \in 1..Len(log) :
        log[k].watermark.stage # "off" =>
            LET mark == log[k].watermark
            IN /\ mark.image = Unmarked(log[k])
               /\ MarkFailed(log[k]) => mark.result = Unmarked(log[k])
               /\ Marked(log[k]) =>
                     mark.result =
                         PasteLayer(Unmarked(log[k]), "watermark",
                                    <<mark.width, mark.height>>, mark.position)

\* a batch in which the overlay was pasted for one image and where the
\* image handed to apply_watermark still holds the scaled image only
C16_Witness ==
    \E k \in 1..Len(log) :
        /\ Marked(log[k])
        /\ Len(log[k].watermark.image.layers) = 1
        /\ Len(log[k].watermark.result.layers) = 2
        /\ log[k].watermark.result.layers[2].kind = "watermark"

\* C17: every image that was decoded is scaled to a width and a height of
\* at least 1, whatever its aspect ratio and the side length.
C17_ScaledDimsPositive ==
    \A k \in 1..Len(log) :
        log[k].stage # "decode" =>
            /\ log[k].new_width >= 1
            /\ log[k].new_height >= 1

====
